---------------------------- MODULE Spec2Model ----------------------------
(***************************************************************************)
(* A model of the falling-sand simulation of src/src/main.cpp: the grid of *)
(* particles, the brush (RevealParticleAt / RevealParticlesAt) and the     *)
(* per-frame scan of UpdateParticleSimulation with the solid, liquid and   *)
(* gas rules.                                                              *)
(*                                                                         *)
(* A pointer to a Particle is modelled by the index of its cell in the    *)
(* grid vector, the null pointer by NULL.  The fields contactSounds and    *)
(* spreadSpeed of SpreadRules are never read by the engine and are left    *)
(* out; they travel with canReplace and contactColors wherever the code    *)
(* moves spreadRules.                                                      *)
(***************************************************************************)
EXTENDS Integers, Sequences, FiniteSets, TLC

----------------------------------------------------------------------------
(* Program constants *)

CELL_SIZE == 10

MATERIAL_NAME_NONE == "none"

MATERIAL_TYPE_NONE == 0
MATERIAL_TYPE_SOLID == 1
MATERIAL_TYPE_LIQUID == 2
MATERIAL_TYPE_GAS == 3

BRUSH_TYPE_SMALL == 1

NULL == -1

----------------------------------------------------------------------------
(* Bounds of the model *)

\* The grids explored, <<width, height>>.  The program's grid is 80 x 80
\* (WINDOW_WIDTH / CELL_SIZE); the brush extents are scaled down with it.
GridSizes == {<<3, 3>>}

\* Extent of the medium and of the big brush (8 and 16 on the 80 x 80 grid).
BRUSH_TYPE_MEDIUM == 1
BRUSH_TYPE_BIG == 2

\* Paint actions (single cells and strokes) and frames in one behaviour.
MaxPaints == 2
MaxTicks == 2

----------------------------------------------------------------------------
(* The material file read by LoadMaterialJsonData: the entries have the    *)
(* shape SerializeParticle writes.  Colours are <<r, g, b>> in the file    *)
(* and <<r, g, b, a>> (SDL_Color) in a particle.                           *)

NoColors == [k \in {} |-> <<0, 0, 0>>]

MaterialFile ==
    << [name |-> "sand", type |-> MATERIAL_TYPE_SOLID, initial_life_time |-> 5,
        initial_color |-> <<200, 180, 90>>,
        spread_rules |-> [can_replace |-> <<"water">>,
                          contact_colors |-> [k \in {"water"} |-> <<150, 130, 60>>]]],
       [name |-> "salt", type |-> MATERIAL_TYPE_SOLID, initial_life_time |-> 7,
        initial_color |-> <<250, 250, 250>>,
        spread_rules |-> [can_replace |-> <<>>,
                          contact_colors |-> NoColors]],
       [name |-> "water", type |-> MATERIAL_TYPE_LIQUID, initial_life_time |-> 9,
        initial_color |-> <<30, 60, 220>>,
        spread_rules |-> [can_replace |-> <<"salt", "smoke">>,
                          contact_colors |-> [k \in {"smoke"} |-> <<90, 90, 160>>]]],
       [name |-> "smoke", type |-> MATERIAL_TYPE_GAS, initial_life_time |-> 3,
        initial_color |-> <<120, 120, 120>>,
        spread_rules |-> [can_replace |-> <<>>,
                          contact_colors |-> NoColors]] >>

NullJson == [is_null |-> TRUE, items |-> <<>>]

----------------------------------------------------------------------------
VARIABLES
    cells,                  \* Grid cells: index -> Particle
    gridWidth, gridHeight,  \* width, height of main()
    data,                   \* the static json of RevealParticleAt
    materialOptions,        \* the material dropdown
    phase,                  \* "input": between frames; "stroke": inside the loop
                            \* of RevealParticlesAt; "scan": inside the scan of
                            \* UpdateParticleSimulation
    x, y,                   \* loop variables of the scan
    bounds, materialName, i, particlesToReveal,  \* RevealParticlesAt's
                            \* parameters and locals
    \* history variables
    prev,                   \* the grid before the last cell operation
    last,                   \* the last cell operation
    snap,                   \* the grid when the current stroke or scan began
    swaps,                  \* the SwapParticles calls of the current scan
    ticks, paints

vars == <<cells, gridWidth, gridHeight, data, materialOptions, phase, x, y,
          bounds, materialName, i, particlesToReveal, prev, last, snap,
          swaps, ticks, paints>>

----------------------------------------------------------------------------
(* Pure functions *)

Min(a, b) == IF a < b THEN a ELSE b
Max(a, b) == IF a > b THEN a ELSE b

\* A default-constructed Particle whose material main() then sets to none.
NewCell ==
    [lifeTime |-> -1, hasBeenUpdatedThisFrame |-> FALSE,
     canReplace |-> <<>>, contactColors |-> [k \in {} |-> <<0, 0, 0, 0>>],
     name |-> MATERIAL_NAME_NONE, type |-> MATERIAL_TYPE_NONE,
     color |-> <<0, 0, 0, 0>>]

\* Variant: the fallback colour whatever the contact colours hold.
GetParticleContactColorFallbackOnly(p, name) == <<0, 0, 0, 255>>

GetParticleContactColor(p, name) ==
    IF name \in DOMAIN p.contactColors
    THEN p.contactColors[name]
    ELSE <<0, 0, 0, 255>>

GetCellIndex(w, cx, cy) == cy * w + cx

ParticleCanSpreadTo(p, name) ==
    \E k \in 1..Len(p.canReplace) : p.canReplace[k] = name

ParticleIsEmpty(p) == p.name = MATERIAL_NAME_NONE

CellsSize(c) == Cardinality(DOMAIN c)

GetParticleAt(c, w, cx, cy) ==
    LET index == GetCellIndex(w, cx, cy)
    IN  IF index >= 0 /\ index < CellsSize(c) THEN index ELSE NULL

\* <<xStart, yStart, xEnd, yEnd>>
MouseCoordinatesToBounds(w, h, cellSize, mouseX, mouseY, extent) ==
    LET cellX == mouseX \div cellSize
        cellY == mouseY \div cellSize
    IN  << Max(0, cellX - extent), Max(0, cellY - extent),
           Min(w - 1, cellX + extent), Min(h - 1, cellY + extent) >>

MouseCoordinatesToXY(w, h, cellSize, mouseX, mouseY) ==
    << Max(0, Min(mouseX \div cellSize, w - 1)),
       Max(0, Min(mouseY \div cellSize, h - 1)) >>

\* The body of the loop of LoadParticleMaterial for one entry of the file.
LoadEntry(p, material) ==
    IF material.name = p.name
    THEN LET json == material.spread_rules.contact_colors
             ic == material.initial_color
         IN  [p EXCEPT
                !.name = material.name,
                !.type = material.type,
                !.lifeTime = material.initial_life_time,
                !.color = <<ic[1], ic[2], ic[3], 0>>,
                !.canReplace = material.spread_rules.can_replace,
                !.contactColors =
                    [k \in DOMAIN p.contactColors \cup DOMAIN json |->
                        IF k \in DOMAIN json
                        THEN <<json[k][1], json[k][2], json[k][3], 255>>
                        ELSE p.contactColors[k]]]
    ELSE p

RECURSIVE LoadEntries(_, _, _)
LoadEntries(p, items, k) ==
    IF k > Len(items) THEN p
    ELSE LoadEntries(LoadEntry(p, items[k]), items, k + 1)

LoadParticleMaterial(p, d) == LoadEntries(p, d.items, 1)

\* The names LoadMaterialJsonData appends to the dropdown.
RECURSIVE AddOptions(_, _, _)
AddOptions(options, items, k) ==
    IF k > Len(items) THEN options
    ELSE AddOptions(
            IF \E j \in 1..Len(options) : options[j] = items[k].name
            THEN options ELSE Append(options, items[k].name),
            items, k + 1)

\* The json RevealParticleAt uses: loaded on the first call.
LoadMaterialJsonData(d) ==
    IF d.is_null THEN [is_null |-> FALSE, items |-> MaterialFile] ELSE d

RevealParticleAt(c, w, cx, cy, name, d) ==
    LET spawnParticle == GetParticleAt(c, w, cx, cy)
        refreshed == [c[spawnParticle] EXCEPT !.name = name,
                                              !.type = MATERIAL_TYPE_SOLID]
    IN  [c EXCEPT ![spawnParticle] = LoadParticleMaterial(refreshed, d)]

\* Variant: p1 becomes p2 and p2 stays what it was.
SwapParticlesOneWay(p1, p2) ==
    << [p1 EXCEPT !.name = p2.name, !.type = p2.type, !.color = p2.color,
                  !.canReplace = p2.canReplace,
                  !.contactColors = p2.contactColors],
       p2 >>

SwapParticles(p1, p2) ==
    << [p1 EXCEPT !.name = p2.name, !.type = p2.type, !.color = p2.color,
                  !.canReplace = p2.canReplace,
                  !.contactColors = p2.contactColors],
       [p2 EXCEPT !.name = p1.name, !.type = p1.type, !.color = p1.color,
                  !.canReplace = p1.canReplace,
                  !.contactColors = p1.contactColors] >>

\* SwapParticles(*a, *b) on the grid.
SwapAt(c, a, b) ==
    LET s == SwapParticles(c[a], c[b])
    IN  [c EXCEPT ![a] = s[1], ![b] = s[2]]

\* particle->material.color = GetParticleContactColor(particle, target name)
Recolor(c, p, t) ==
    [c EXCEPT ![p].color = GetParticleContactColor(c[p], c[t].name)]

\* The condition of the "move down" branch and of the loop of UpdateGas.
CanMoveTo(c, p, t) ==
    /\ t # NULL
    /\ (ParticleIsEmpty(c[t]) \/ ParticleCanSpreadTo(c[p], c[t].name))

\* The condition of the other branches.
IsFree(c, t) == t # NULL /\ ParticleIsEmpty(c[t])

\* Each rule yields the grid after the visit and the SwapParticles call it
\* made: <<target, particle>>, or <<>> for none.
\* Variant: the below-left cell is tried before the cell below.
UpdateSolidLeftFirst(c, w, cx, cy) ==
    LET solidParticle == GetParticleAt(c, w, cx, cy)
        bParticle == GetParticleAt(c, w, cx, cy + 1)
        blParticle == GetParticleAt(c, w, cx - 1, cy + 1)
        brParticle == GetParticleAt(c, w, cx + 1, cy + 1)
    IN  IF IsFree(c, blParticle)
        THEN [cells |-> SwapAt(c, blParticle, solidParticle),
              swap |-> <<blParticle, solidParticle>>]
        ELSE IF CanMoveTo(c, solidParticle, bParticle)
        THEN [cells |-> SwapAt(Recolor(c, solidParticle, bParticle),
                               bParticle, solidParticle),
              swap |-> <<bParticle, solidParticle>>]
        ELSE IF IsFree(c, brParticle)
        THEN [cells |-> SwapAt(c, brParticle, solidParticle),
              swap |-> <<brParticle, solidParticle>>]
        ELSE [cells |-> c, swap |-> <<>>]

UpdateSolid(c, w, cx, cy) ==
    LET solidParticle == GetParticleAt(c, w, cx, cy)
        bParticle == GetParticleAt(c, w, cx, cy + 1)
        blParticle == GetParticleAt(c, w, cx - 1, cy + 1)
        brParticle == GetParticleAt(c, w, cx + 1, cy + 1)
    IN  IF CanMoveTo(c, solidParticle, bParticle)
        THEN [cells |-> SwapAt(Recolor(c, solidParticle, bParticle),
                               bParticle, solidParticle),
              swap |-> <<bParticle, solidParticle>>]
        ELSE IF IsFree(c, blParticle)
        THEN [cells |-> SwapAt(c, blParticle, solidParticle),
              swap |-> <<blParticle, solidParticle>>]
        ELSE IF IsFree(c, brParticle)
        THEN [cells |-> SwapAt(c, brParticle, solidParticle),
              swap |-> <<brParticle, solidParticle>>]
        ELSE [cells |-> c, swap |-> <<>>]

\* Variant: without the "move right" branch.
UpdateLiquidNoRight(c, w, cx, cy) ==
    LET liquidParticle == GetParticleAt(c, w, cx, cy)
        lParticle == GetParticleAt(c, w, cx - 1, cy)
        bParticle == GetParticleAt(c, w, cx, cy + 1)
        blParticle == GetParticleAt(c, w, cx - 1, cy + 1)
        brParticle == GetParticleAt(c, w, cx + 1, cy + 1)
    IN  IF CanMoveTo(c, liquidParticle, bParticle)
        THEN [cells |-> SwapAt(Recolor(c, liquidParticle, bParticle),
                               bParticle, liquidParticle),
              swap |-> <<bParticle, liquidParticle>>]
        ELSE IF IsFree(c, blParticle)
        THEN [cells |-> SwapAt(c, blParticle, liquidParticle),
              swap |-> <<blParticle, liquidParticle>>]
        ELSE IF IsFree(c, brParticle)
        THEN [cells |-> SwapAt(c, brParticle, liquidParticle),
              swap |-> <<brParticle, liquidParticle>>]
        ELSE IF IsFree(c, lParticle)
        THEN [cells |-> SwapAt(c, lParticle, liquidParticle),
              swap |-> <<lParticle, liquidParticle>>]
        ELSE [cells |-> c, swap |-> <<>>]

UpdateLiquid(c, w, cx, cy) ==
    LET liquidParticle == GetParticleAt(c, w, cx, cy)
        lParticle == GetParticleAt(c, w, cx - 1, cy)
        rParticle == GetParticleAt(c, w, cx + 1, cy)
        bParticle == GetParticleAt(c, w, cx, cy + 1)
        blParticle == GetParticleAt(c, w, cx - 1, cy + 1)
        brParticle == GetParticleAt(c, w, cx + 1, cy + 1)
    IN  IF CanMoveTo(c, liquidParticle, bParticle)
        THEN [cells |-> SwapAt(Recolor(c, liquidParticle, bParticle),
                               bParticle, liquidParticle),
              swap |-> <<bParticle, liquidParticle>>]
        ELSE IF IsFree(c, blParticle)
        THEN [cells |-> SwapAt(c, blParticle, liquidParticle),
              swap |-> <<blParticle, liquidParticle>>]
        ELSE IF IsFree(c, brParticle)
        THEN [cells |-> SwapAt(c, brParticle, liquidParticle),
              swap |-> <<brParticle, liquidParticle>>]
        ELSE IF IsFree(c, lParticle)
        THEN [cells |-> SwapAt(c, lParticle, liquidParticle),
              swap |-> <<lParticle, liquidParticle>>]
        ELSE IF IsFree(c, rParticle)
        THEN [cells |-> SwapAt(c, rParticle, liquidParticle),
              swap |-> <<rParticle, liquidParticle>>]
        ELSE [cells |-> c, swap |-> <<>>]

\* The loop of UpdateGas over the shuffled directions, from position k on.
RECURSIVE GasTry(_, _, _, _)
GasTry(c, gasParticle, directions, k) ==
    IF k > Len(directions) THEN [cells |-> c, swap |-> <<>>]
    ELSE IF CanMoveTo(c, gasParticle, directions[k])
    THEN [cells |-> SwapAt(Recolor(c, gasParticle, directions[k]),
                           directions[k], gasParticle),
          swap |-> <<directions[k], gasParticle>>]
    ELSE GasTry(c, gasParticle, directions, k + 1)

\* order: the permutation std::shuffle produced.
UpdateGas(c, w, cx, cy, order) ==
    LET gasParticle == GetParticleAt(c, w, cx, cy)
        aParticle == GetParticleAt(c, w, cx, cy - 1)
        lParticle == GetParticleAt(c, w, cx - 1, cy)
        rParticle == GetParticleAt(c, w, cx + 1, cy)
        bParticle == GetParticleAt(c, w, cx, cy + 1)
        directions == <<aParticle, lParticle, rParticle, bParticle>>
        shuffled == [k \in 1..4 |-> directions[order[k]]]
    IN  GasTry(c, gasParticle, shuffled, 1)

Shuffles == {s \in [1..4 -> 1..4] : \A a, b \in 1..4 : a # b => s[a] # s[b]}

\* Variant: a cell a particle has been moved into during this scan is
\* skipped.
DispatchOncePerFrame(c, w, cx, cy, order) ==
    LET matType == c[GetParticleAt(c, w, cx, cy)].type
    IN  IF \E n \in 1..Len(swaps) : swaps[n][1] = GetParticleAt(c, w, cx, cy)
        THEN [cells |-> c, swap |-> <<>>]
        ELSE IF matType = MATERIAL_TYPE_SOLID THEN UpdateSolid(c, w, cx, cy)
        ELSE IF matType = MATERIAL_TYPE_LIQUID THEN UpdateLiquid(c, w, cx, cy)
        ELSE IF matType = MATERIAL_TYPE_GAS THEN UpdateGas(c, w, cx, cy, order)
        ELSE [cells |-> c, swap |-> <<>>]

\* The switch of UpdateParticleSimulation for the cell at (cx, cy).
Dispatch(c, w, cx, cy, order) ==
    LET matType == c[GetParticleAt(c, w, cx, cy)].type
    IN  IF matType = MATERIAL_TYPE_SOLID THEN UpdateSolid(c, w, cx, cy)
        ELSE IF matType = MATERIAL_TYPE_LIQUID THEN UpdateLiquid(c, w, cx, cy)
        ELSE IF matType = MATERIAL_TYPE_GAS THEN UpdateGas(c, w, cx, cy, order)
        ELSE [cells |-> c, swap |-> <<>>]

----------------------------------------------------------------------------
(* The cells a stroke can hit.  RevealParticlesAt draws an angle in        *)
(* [0, 2 pi) and a radius in [0, maxRadius] and truncates                  *)
(* center + radius * cos / sin (angle) to int: the offset <<dx, dy>> from  *)
(* the centre is that of a unit square [dx, dx+1) x [dy, dy+1) holding a   *)
(* point of the disc of that radius.                                       *)

Near(d) == IF d >= 0 THEN d ELSE -d - 1

SampleOffsets(maxRadius) ==
    {o \in (-maxRadius..maxRadius) \X (-maxRadius..maxRadius) :
        LET d2 == Near(o[1]) * Near(o[1]) + Near(o[2]) * Near(o[2])
        IN  IF o[1] >= 0 /\ o[2] >= 0
            THEN d2 <= maxRadius * maxRadius
            ELSE d2 < maxRadius * maxRadius}

\* Variant: the fifth of the box rounded up.
ParticlesToRevealRoundedUp(b) ==
    LET totalParticles == (b[3] - b[1] + 1) * (b[4] - b[2] + 1)
    IN  (totalParticles + 4) \div 5

\* int particlesToReveal = static_cast<int>(totalParticles * 0.2)
ParticlesToReveal(b) ==
    LET totalParticles == (b[3] - b[1] + 1) * (b[4] - b[2] + 1)
    IN  totalParticles \div 5

\* The cell one iteration of the loop of RevealParticlesAt paints for the
\* sample with offset o, after the clamp into the box.
SampleCell(b, o) ==
    LET centerX == (b[1] + b[3]) \div 2
        centerY == (b[2] + b[4]) \div 2
    IN  << Max(b[1], Min(centerX + o[1], b[3])),
           Max(b[2], Min(centerY + o[2], b[4])) >>

\* std::min(centerX - xStart, centerY - yStart)
MaxRadius(b) == Min((b[1] + b[3]) \div 2 - b[1], (b[2] + b[4]) \div 2 - b[2])

----------------------------------------------------------------------------
(* The state machine *)

NoOp == [op |-> "none", at |-> NULL, to |-> NULL, name |-> "", found |-> FALSE]

\* Pointer positions inside the window: the last pixel of every cell.
MouseXs == {cx * CELL_SIZE + CELL_SIZE - 1 : cx \in 0..(gridWidth - 1)}
MouseYs == {cy * CELL_SIZE + CELL_SIZE - 1 : cy \in 0..(gridHeight - 1)}

InCatalog(name, d) ==
    \E k \in 1..Len(d.items) : d.items[k].name = name

\* main() up to the game loop.
Init ==
    /\ \E s \in GridSizes :
          /\ gridWidth = s[1]
          /\ gridHeight = s[2]
          /\ cells = [k \in 0..(s[1] * s[2] - 1) |-> NewCell]
    /\ data = NullJson
    /\ materialOptions = <<MATERIAL_NAME_NONE>>
    /\ phase = "input"
    /\ x = 0 /\ y = 0
    /\ bounds = <<0, 0, 0, 0>> /\ materialName = "" /\ i = 0
    /\ particlesToReveal = 0
    /\ prev = cells /\ snap = cells
    /\ last = NoOp
    /\ swaps = <<>>
    /\ ticks = 0 /\ paints = 0

\* UpdateInputs with the small brush and the material option the user has
\* selected in the dropdown: one RevealParticleAt.
PaintSmall ==
    /\ phase = "input"
    /\ paints < MaxPaints
    /\ \E selectedMaterialOption \in 0..(Len(materialOptions) - 1),
          mouseX \in MouseXs, mouseY \in MouseYs :
          LET name == materialOptions[selectedMaterialOption + 1]
              coords == MouseCoordinatesToXY(gridWidth, gridHeight, CELL_SIZE, mouseX, mouseY)
              d == LoadMaterialJsonData(data)
          IN  /\ cells' = RevealParticleAt(cells, gridWidth, coords[1], coords[2], name, d)
              /\ data' = d
              /\ materialOptions' = IF data.is_null
                                    THEN AddOptions(materialOptions, d.items, 1)
                                    ELSE materialOptions
              /\ last' = [op |-> "paint",
                          at |-> GetParticleAt(cells, gridWidth, coords[1], coords[2]),
                          to |-> NULL, name |-> name,
                          found |-> InCatalog(name, d)]
    /\ prev' = cells
    /\ paints' = paints + 1
    /\ UNCHANGED <<gridWidth, gridHeight, phase, x, y, bounds, materialName, i,
                   particlesToReveal, snap, swaps, ticks>>

\* UpdateInputs with the medium or big brush: RevealParticlesAt up to its loop.
StrokeBegin ==
    /\ phase = "input"
    /\ paints < MaxPaints
    /\ \E selectedMaterialOption \in 0..(Len(materialOptions) - 1),
          mouseX \in MouseXs, mouseY \in MouseYs,
          brush \in {BRUSH_TYPE_MEDIUM, BRUSH_TYPE_BIG} :
          LET b == MouseCoordinatesToBounds(gridWidth, gridHeight, CELL_SIZE,
                                            mouseX, mouseY, brush)
          IN  /\ materialName' = materialOptions[selectedMaterialOption + 1]
              /\ bounds' = b
              /\ particlesToReveal' = ParticlesToReveal(b)
    /\ phase' = "stroke"
    /\ i' = 0
    /\ snap' = cells
    /\ prev' = cells
    /\ last' = [NoOp EXCEPT !.op = "stroke"]
    /\ paints' = paints + 1
    /\ UNCHANGED <<cells, gridWidth, gridHeight, data, materialOptions, x, y,
                   swaps, ticks>>

\* One iteration of the loop of RevealParticlesAt.
StrokeStep ==
    /\ phase = "stroke"
    /\ i < particlesToReveal
    /\ \E o \in SampleOffsets(MaxRadius(bounds)) :
          LET d == LoadMaterialJsonData(data)
              p == SampleCell(bounds, o)
          IN  /\ cells' = RevealParticleAt(cells, gridWidth, p[1], p[2], materialName, d)
              /\ data' = d
              /\ materialOptions' = IF data.is_null
                                    THEN AddOptions(materialOptions, d.items, 1)
                                    ELSE materialOptions
              /\ last' = [op |-> "paint",
                          at |-> GetParticleAt(cells, gridWidth, p[1], p[2]),
                          to |-> NULL, name |-> materialName,
                          found |-> InCatalog(materialName, d)]
    /\ prev' = cells
    /\ i' = i + 1
    /\ UNCHANGED <<gridWidth, gridHeight, phase, x, y, bounds, materialName,
                   particlesToReveal, snap, swaps, ticks, paints>>

\* The loop of RevealParticlesAt ends and the function returns.
StrokeEnd ==
    /\ phase = "stroke"
    /\ ~(i < particlesToReveal)
    /\ phase' = "input"
    /\ bounds' = <<0, 0, 0, 0>> /\ materialName' = "" /\ i' = 0
    /\ particlesToReveal' = 0
    /\ last' = [NoOp EXCEPT !.op = "stroked"]
    /\ prev' = cells
    /\ snap' = cells
    /\ UNCHANGED <<cells, gridWidth, gridHeight, data, materialOptions, x, y,
                   swaps, ticks, paints>>

\* UpdateParticleSimulation: entry of the scan, y = gridHeight - 1, x = 0.
BeginTick ==
    /\ phase = "input"
    /\ ticks < MaxTicks
    /\ gridHeight - 1 > 0
    /\ phase' = "scan"
    /\ y' = gridHeight - 1
    /\ x' = 0
    /\ snap' = cells
    /\ swaps' = <<>>
    /\ last' = [NoOp EXCEPT !.op = "begin"]
    /\ prev' = cells
    /\ UNCHANGED <<cells, gridWidth, gridHeight, data, materialOptions, bounds,
                   materialName, i, particlesToReveal, ticks, paints>>

\* The orders std::shuffle is asked for: only UpdateGas shuffles.
OrdersAt(c, w, cx, cy) ==
    IF c[GetParticleAt(c, w, cx, cy)].type = MATERIAL_TYPE_GAS
    THEN Shuffles ELSE {[k \in 1..4 |-> k]}

\* One iteration of the inner loop of the scan: the cell (x, y), then x++ and,
\* at the end of the row, y--; the scan ends when y reaches 0.
Visit ==
    /\ phase = "scan"
    /\ \E order \in OrdersAt(cells, gridWidth, x, y) :
          LET r == Dispatch(cells, gridWidth, x, y, order)
          IN  /\ cells' = r.cells
              /\ swaps' = IF r.swap = <<>> THEN swaps ELSE Append(swaps, r.swap)
              /\ last' = [op |-> "visit",
                          at |-> GetParticleAt(cells, gridWidth, x, y),
                          to |-> IF r.swap = <<>> THEN NULL ELSE r.swap[1],
                          name |-> "", found |-> FALSE]
    /\ prev' = cells
    /\ IF x + 1 < gridWidth
       THEN x' = x + 1 /\ y' = y /\ phase' = "scan" /\ ticks' = ticks
       ELSE IF y - 1 > 0
       THEN x' = 0 /\ y' = y - 1 /\ phase' = "scan" /\ ticks' = ticks
       ELSE x' = 0 /\ y' = 0 /\ phase' = "input" /\ ticks' = ticks + 1
    /\ UNCHANGED <<gridWidth, gridHeight, data, materialOptions, bounds,
                   materialName, i, particlesToReveal, snap, paints>>

\* The grid after the user has painted it and before any frame has moved
\* it: every cell is as main() made it or as RevealParticleAt makes such a
\* cell for a material of the file.  (The first paint, which can only be
\* "none", is painted over by a later one.)
LoadedJson == LoadMaterialJsonData(NullJson)

FreshParticle(name) ==
    IF name = MATERIAL_NAME_NONE THEN NewCell
    ELSE LoadParticleMaterial([NewCell EXCEPT !.name = name,
                                              !.type = MATERIAL_TYPE_SOLID],
                              LoadedJson)

\* The cells painted, and the materials they are painted with, by grid:
\* rows 1 and 2 of the 3 x 3 grid with every material; on the taller and on
\* the wider grid, sand and water below row 0 (and right of column 0 on the
\* taller one).
Paintable(s) ==
    IF s = <<3, 4>>
    THEN {k \in 0..(s[1] * s[2] - 1) : k \div s[1] >= 1 /\ k % s[1] >= 1}
    ELSE {k \in 0..(s[1] * s[2] - 1) : k \div s[1] >= 1}

PaintNames(s) ==
    IF s = <<3, 3>>
    THEN {MATERIAL_NAME_NONE, "sand", "salt", "water", "smoke"}
    ELSE {MATERIAL_NAME_NONE, "sand", "water"}

InitPainted(s) ==
    /\ \E g \in [Paintable(s) -> PaintNames(s)] :
          /\ \E k \in Paintable(s) : g[k] # MATERIAL_NAME_NONE
          /\ cells = [k \in 0..(s[1] * s[2] - 1) |->
                         IF k \in Paintable(s) THEN FreshParticle(g[k])
                         ELSE NewCell]
    /\ gridWidth = s[1]
    /\ gridHeight = s[2]
    /\ data = LoadedJson
    /\ materialOptions = AddOptions(<<MATERIAL_NAME_NONE>>, LoadedJson.items, 1)
    /\ phase = "input"
    /\ x = 0 /\ y = 0
    /\ bounds = <<0, 0, 0, 0>> /\ materialName = "" /\ i = 0
    /\ particlesToReveal = 0
    /\ prev = cells /\ snap = cells
    /\ last = NoOp
    /\ swaps = <<>>
    /\ ticks = MaxTicks - 1 /\ paints = MaxPaints

\* The grid as main() constructs it, of another size, with one paint action
\* and one frame left.
InitBrush(s) ==
    /\ gridWidth = s[1]
    /\ gridHeight = s[2]
    /\ cells = [k \in 0..(s[1] * s[2] - 1) |-> NewCell]
    /\ data = NullJson
    /\ materialOptions = <<MATERIAL_NAME_NONE>>
    /\ phase = "input"
    /\ x = 0 /\ y = 0
    /\ bounds = <<0, 0, 0, 0>> /\ materialName = "" /\ i = 0
    /\ particlesToReveal = 0
    /\ prev = cells /\ snap = cells
    /\ last = NoOp
    /\ swaps = <<>>
    /\ ticks = MaxTicks - 1 /\ paints = MaxPaints - 1

\* The 3 x 3 grid after the user has painted its bottom row, with one paint
\* action and one frame left.
InitRepaint ==
    /\ \E g \in [6..8 -> {MATERIAL_NAME_NONE, "sand", "salt", "water", "smoke"}] :
          /\ \E k \in 6..8 : g[k] # MATERIAL_NAME_NONE
          /\ cells = [k \in 0..8 |-> IF k \in 6..8 THEN FreshParticle(g[k])
                                     ELSE NewCell]
    /\ gridWidth = 3
    /\ gridHeight = 3
    /\ data = LoadedJson
    /\ materialOptions = AddOptions(<<MATERIAL_NAME_NONE>>, LoadedJson.items, 1)
    /\ phase = "input"
    /\ x = 0 /\ y = 0
    /\ bounds = <<0, 0, 0, 0>> /\ materialName = "" /\ i = 0
    /\ particlesToReveal = 0
    /\ prev = cells /\ snap = cells
    /\ last = NoOp
    /\ swaps = <<>>
    /\ ticks = MaxTicks - 1 /\ paints = MaxPaints - 1

Next == PaintSmall \/ StrokeBegin \/ StrokeStep \/ StrokeEnd \/ BeginTick \/ Visit

\* From the construction of the grid.
Spec == Init /\ [][Next]_vars

\* From the construction of the grid, or from a painted grid with the paint
\* actions used up and one frame left: the 3 x 3 grid, the taller 3 x 4 grid,
\* the wider 4 x 3 grid.
SpecPainted == (Init \/ InitPainted(<<3, 3>>)) /\ [][Next]_vars
SpecTall == (Init \/ InitPainted(<<3, 4>>)) /\ [][Next]_vars
SpecWide == (Init \/ InitPainted(<<4, 3>>)) /\ [][Next]_vars

\* From the construction of the grid, or from a painted bottom row.
SpecRepaint == (Init \/ InitRepaint) /\ [][Next]_vars

\* From the construction of the 3 x 3 grid or of the 5 x 5 grid.
SpecBrush == (Init \/ InitBrush(<<5, 5>>)) /\ [][Next]_vars

----------------------------------------------------------------------------
(* Vocabulary of the properties *)

XOf(k) == k % gridWidth
YOf(k) == k \div gridWidth
InGrid(cx, cy) == cx >= 0 /\ cx < gridWidth /\ cy >= 0 /\ cy < gridHeight
CellAt(cx, cy) == cy * gridWidth + cx
Abs(n) == IF n < 0 THEN -n ELSE n

\* The last step was a visit of the scan; the scan is over and nothing has
\* touched the grid since.
Visited == last.op = "visit"
TickDone == phase = "input" /\ last.op = "visit"

\* The cell holds no material, by name as the rules test it.
EmptyIn(g, k) == g[k].name = "none"

\* The payload SwapParticles is meant to carry, colour apart.
SameMaterial(p, q) ==
    /\ p.name = q.name
    /\ p.type = q.type
    /\ p.canReplace = q.canReplace
    /\ p.contactColors = q.contactColors

Replaces(p, name) == \E k \in DOMAIN p.canReplace : p.canReplace[k] = name

\* (cx, cy) is no place the particle g[p] can go: outside the grid, or a
\* non-empty cell ...
Occupied(g, cx, cy) == ~InGrid(cx, cy) \/ ~EmptyIn(g, CellAt(cx, cy))
\* ... that it cannot replace either.
Blocked(g, p, cx, cy) ==
    \/ ~InGrid(cx, cy)
    \/ (~EmptyIn(g, CellAt(cx, cy)) /\ ~Replaces(g[p], g[CellAt(cx, cy)].name))

\* Grid g2 is grid g1 with the materials of cells a and b exchanged and
\* every other cell as it was.
Exchanged(g1, g2, a, b) ==
    /\ SameMaterial(g2[a], g1[b])
    /\ SameMaterial(g2[b], g1[a])
    /\ \A k \in DOMAIN g1 : k \notin {a, b} => g2[k] = g1[k]

----------------------------------------------------------------------------
\* C1: on a 3 x 3 grid with a solid at (1,0) and every other cell empty, the
\* first tick moves the solid to (1,1), the second to (1,2), and the third
\* leaves it at (1,2).  Stated tick by tick: a tick that starts from the
\* lone solid at one of these places ends with it at the next.
LoneSolid(g, cx, cy) ==
    /\ gridWidth = 3 /\ gridHeight = 3
    /\ g[CellAt(cx, cy)].type = MATERIAL_TYPE_SOLID
    /\ ~EmptyIn(g, CellAt(cx, cy))
    /\ \A k \in DOMAIN g :
          k # CellAt(cx, cy) => (EmptyIn(g, k) /\ g[k].type = MATERIAL_TYPE_NONE)

C1_EndToEnd ==
    TickDone =>
        /\ LoneSolid(snap, 1, 0) => LoneSolid(cells, 1, 1)
        /\ LoneSolid(snap, 1, 1) => LoneSolid(cells, 1, 2)
        /\ LoneSolid(snap, 1, 2) => LoneSolid(cells, 1, 2)

----------------------------------------------------------------------------
\* C2: during and after a tick the grid has the cells it had when the tick
\* began, and every material (name, type and spread rules) is held by as
\* many cells as then: none is created, none is destroyed.
NameCount(g, p) == Cardinality({k \in DOMAIN g : SameMaterial(g[k], p)})

C2_TickConservesMaterials ==
    (phase = "scan" \/ TickDone) =>
        /\ DOMAIN cells = DOMAIN snap
        /\ \A k \in DOMAIN snap :
              NameCount(cells, snap[k]) = NameCount(snap, snap[k])
        /\ \A k \in DOMAIN cells :
              NameCount(cells, cells[k]) = NameCount(snap, cells[k])

\* A tick is over in which a particle has moved.
C2_Witness ==
    /\ TickDone
    /\ swaps # <<>>
    /\ \E k \in DOMAIN cells : cells[k].name # snap[k].name

----------------------------------------------------------------------------
\* C3: painting a cell with a material name the file has no entry for leaves
\* the cell as it was.
C3_UnknownMaterialLeavesCell ==
    (last.op = "paint" /\ ~last.found) => cells[last.at] = prev[last.at]

----------------------------------------------------------------------------
\* C4: a rule never moves through the edge of the grid: the two cells of
\* every swap differ by at most 1 in x and by at most 1 in y.
C4_SwapsAreAdjacent ==
    (Visited /\ last.to # NULL) =>
        /\ Abs(XOf(last.to) - XOf(last.at)) <= 1
        /\ Abs(YOf(last.to) - YOf(last.at)) <= 1

----------------------------------------------------------------------------
\* C5: a visited solid whose below, below-left and below-right cells are in
\* the grid and empty is exchanged with the below cell and nothing else
\* changes; and a solid that goes below-left had no way below, one that goes
\* below-right had no way below nor below-left.
C5_SolidPriority ==
    (Visited /\ prev[last.at].type = MATERIAL_TYPE_SOLID) =>
        LET cx == XOf(last.at)
            cy == YOf(last.at)
        IN  /\ ( /\ InGrid(cx, cy + 1) /\ EmptyIn(prev, CellAt(cx, cy + 1))
                 /\ InGrid(cx - 1, cy + 1) /\ EmptyIn(prev, CellAt(cx - 1, cy + 1))
                 /\ InGrid(cx + 1, cy + 1) /\ EmptyIn(prev, CellAt(cx + 1, cy + 1)) )
               => /\ last.to = CellAt(cx, cy + 1)
                  /\ Exchanged(prev, cells, last.at, CellAt(cx, cy + 1))
            /\ (InGrid(cx - 1, cy + 1) /\ last.to = CellAt(cx - 1, cy + 1))
               => Blocked(prev, last.at, cx, cy + 1)
            /\ (InGrid(cx + 1, cy + 1) /\ last.to = CellAt(cx + 1, cy + 1))
               => /\ Blocked(prev, last.at, cx, cy + 1)
                  /\ Occupied(prev, cx - 1, cy + 1)

\* A solid of the file with all three cells below it empty has been visited.
C5_Witness ==
    /\ Visited
    /\ prev[last.at].type = MATERIAL_TYPE_SOLID
    /\ prev[last.at].name = "sand"
    /\ InGrid(XOf(last.at) - 1, YOf(last.at) + 1)
    /\ InGrid(XOf(last.at) + 1, YOf(last.at) + 1)
    /\ \A dx \in {-1, 0, 1} :
          EmptyIn(prev, CellAt(XOf(last.at) + dx, YOf(last.at) + 1))
    /\ cells[CellAt(XOf(last.at), YOf(last.at) + 1)].name = "sand"

----------------------------------------------------------------------------
\* C6: a visited liquid with no way below, below-left or below-right (each
\* of these places is outside the grid or holds a particle it cannot
\* replace) and an empty cell to its left moves into that cell, in every
\* column that has a left neighbour.
C6_LiquidMovesLeft ==
    (Visited /\ prev[last.at].type = MATERIAL_TYPE_LIQUID) =>
        LET cx == XOf(last.at)
            cy == YOf(last.at)
        IN  ( /\ Blocked(prev, last.at, cx, cy + 1)
              /\ Blocked(prev, last.at, cx - 1, cy + 1)
              /\ Blocked(prev, last.at, cx + 1, cy + 1)
              /\ InGrid(cx - 1, cy) /\ EmptyIn(prev, CellAt(cx - 1, cy)) )
            => /\ last.to = CellAt(cx - 1, cy)
               /\ SameMaterial(cells[CellAt(cx - 1, cy)], prev[last.at])

----------------------------------------------------------------------------
\* C7: a visited liquid whose canReplace holds the name X of the particle in
\* the cell below is exchanged with that cell; it arrives with the colour
\* its contactColors give for X, or <<0, 0, 0, 255>> when they give none,
\* and the X particle is in the cell the liquid left.
C7_LiquidReplacesBelow ==
    (Visited /\ prev[last.at].type = MATERIAL_TYPE_LIQUID) =>
        LET cx == XOf(last.at)
            cy == YOf(last.at)
            below == CellAt(cx, cy + 1)
            liquid == prev[last.at]
        IN  (InGrid(cx, cy + 1) /\ Replaces(liquid, prev[below].name))
            => /\ last.to = below
               /\ Exchanged(prev, cells, last.at, below)
               /\ cells[below].color =
                      IF prev[below].name \in DOMAIN liquid.contactColors
                      THEN liquid.contactColors[prev[below].name]
                      ELSE <<0, 0, 0, 255>>
               /\ cells[last.at].color = prev[below].color

\* A liquid has replaced a particle its contactColors name.
C7_Witness ==
    /\ Visited
    /\ prev[last.at].type = MATERIAL_TYPE_LIQUID
    /\ InGrid(XOf(last.at), YOf(last.at) + 1)
    /\ LET below == CellAt(XOf(last.at), YOf(last.at) + 1)
       IN  /\ Replaces(prev[last.at], prev[below].name)
           /\ prev[below].name \in DOMAIN prev[last.at].contactColors
           /\ cells[below].name = prev[last.at].name
           /\ cells[last.at].name = prev[below].name

----------------------------------------------------------------------------
\* C8: in a stroke of the medium or big brush the box lies inside the grid,
\* every cell painted lies inside the box, every cell outside the box is as
\* it was before the stroke, and when the loop ends the number of paint
\* attempts is floor(0.2 * area of the box).
InBox(b, k) ==
    /\ b[1] <= XOf(k) /\ XOf(k) <= b[3]
    /\ b[2] <= YOf(k) /\ YOf(k) <= b[4]

C8_StrokeInBox ==
    phase = "stroke" =>
        /\ InGrid(bounds[1], bounds[2]) /\ InGrid(bounds[3], bounds[4])
        /\ bounds[1] <= bounds[3] /\ bounds[2] <= bounds[4]
        /\ last.op = "paint" => InBox(bounds, last.at)
        /\ \A k \in DOMAIN cells : ~InBox(bounds, k) => cells[k] = snap[k]
        /\ i <= (2 * (bounds[3] - bounds[1] + 1) * (bounds[4] - bounds[2] + 1)) \div 10
        /\ ~(i < particlesToReveal) =>
              i = (2 * (bounds[3] - bounds[1] + 1) * (bounds[4] - bounds[2] + 1)) \div 10

\* The loop of a stroke has ended after three attempts or more, and the box
\* leaves cells of the grid outside.
C8_Witness ==
    /\ phase = "stroke"
    /\ i = particlesToReveal
    /\ i >= 3
    /\ cells # snap
    /\ \E k \in DOMAIN cells : ~InBox(bounds, k)

----------------------------------------------------------------------------
\* C9: a swap exchanges the whole payload of the two cells: after a rule has
\* swapped the visited cell A with B, A holds what B held (lifetime
\* included) and B holds what A held (lifetime included; the colour of A's
\* particle is the one the rule gave it before the swap).
C9_SwapExchangesPayload ==
    (Visited /\ last.to # NULL) =>
        /\ cells[last.at] = prev[last.to]
        /\ SameMaterial(cells[last.to], prev[last.at])
        /\ cells[last.to].lifeTime = prev[last.at].lifeTime

----------------------------------------------------------------------------
\* C10: a liquid whose below, below-left, below-right and left neighbours
\* are non-empty and not replaceable and whose right cell is empty.
MovesRightOnly(g, p) ==
    LET cx == XOf(p)
        cy == YOf(p)
    IN  /\ g[p].type = MATERIAL_TYPE_LIQUID
        /\ InGrid(cx, cy + 1) /\ InGrid(cx - 1, cy + 1) /\ InGrid(cx + 1, cy + 1)
        /\ InGrid(cx - 1, cy) /\ InGrid(cx + 1, cy)
        /\ \A t \in {CellAt(cx, cy + 1), CellAt(cx - 1, cy + 1),
                     CellAt(cx + 1, cy + 1), CellAt(cx - 1, cy)} :
              ~EmptyIn(g, t) /\ ~Replaces(g[p], g[t].name)
        /\ EmptyIn(g, CellAt(cx + 1, cy))

\* The grid of materials after the first k swaps of the log, from grid g.
RECURSIVE Replay(_, _, _)
Replay(g, log, k) ==
    IF k = 0 THEN g
    ELSE SwapAt(Replay(g, log, k - 1), log[k][1], log[k][2])

\* C10, as claimed: when the tick is over, a liquid that was visited in
\* that situation during the tick is in the cell to the right of where it
\* was, and that swap is the only one that has moved it.
C10_EndsRightSwappedOnce ==
    TickDone =>
        \A k \in 1..Len(swaps) :
            LET g == Replay(snap, swaps, k - 1)
                p == swaps[k][2]
                t == swaps[k][1]
            IN  MovesRightOnly(g, p) =>
                    /\ t = p + 1
                    /\ \A j \in (k + 1)..Len(swaps) :
                          t # swaps[j][1] /\ t # swaps[j][2]
                    /\ SameMaterial(cells[t], g[p])

\* C10, amended: the visit of a liquid in that situation exchanges it with
\* the cell to its right, once, and changes nothing else.
C10_VisitMovesRight ==
    (Visited /\ MovesRightOnly(prev, last.at)) =>
        /\ last.to = last.at + 1
        /\ Exchanged(prev, cells, last.at, last.at + 1)
        /\ cells[last.at + 1].color = prev[last.at].color

\* Such a liquid has been visited and has moved right.
C10_Witness ==
    /\ Visited
    /\ MovesRightOnly(prev, last.at)
    /\ cells[last.at + 1].name = prev[last.at].name
    /\ EmptyIn(cells, last.at)

----------------------------------------------------------------------------
\* C11: after a paint with a material of the file the cell holds exactly
\* that entry's name, type, lifetime, colour, canReplace and contact
\* colours, whatever it held before.
CatalogEntry(name) ==
    MaterialFile[CHOOSE k \in 1..Len(MaterialFile) : MaterialFile[k].name = name]

IsFresh(p, e) ==
    /\ p.name = e.name
    /\ p.type = e.type
    /\ p.lifeTime = e.initial_life_time
    /\ <<p.color[1], p.color[2], p.color[3]>> = e.initial_color
    /\ p.canReplace = e.spread_rules.can_replace
    /\ DOMAIN p.contactColors = DOMAIN e.spread_rules.contact_colors
    /\ \A k \in DOMAIN e.spread_rules.contact_colors :
          <<p.contactColors[k][1], p.contactColors[k][2], p.contactColors[k][3]>>
              = e.spread_rules.contact_colors[k]

C11_PaintIsFresh ==
    (last.op = "paint" /\ last.found) =>
        IsFresh(cells[last.at], CatalogEntry(last.name))

----------------------------------------------------------------------------
\* C12: a solid or liquid that a visit swaps with its below-left,
\* below-right, left or right cell finds in that cell a particle of type
\* NONE.
SideCells(k) ==
    {CellAt(XOf(k) + d[1], YOf(k) + d[2]) :
        d \in {e \in {<<-1, 1>>, <<1, 1>>, <<-1, 0>>, <<1, 0>>} :
                  InGrid(XOf(k) + e[1], YOf(k) + e[2])}}

C12_SideMovesIntoNone ==
    ( /\ Visited /\ last.to # NULL
      /\ prev[last.at].type \in {MATERIAL_TYPE_SOLID, MATERIAL_TYPE_LIQUID}
      /\ last.to \in SideCells(last.at) )
    => prev[last.to].type = MATERIAL_TYPE_NONE

----------------------------------------------------------------------------
\* C13: nothing stops a second move in the same tick.  The swaps of the
\* tick made before the last visit ...
EarlierSwaps ==
    IF last.to = NULL THEN swaps ELSE SubSeq(swaps, 1, Len(swaps) - 1)

\* ... the cell a the particle now in cell k came from, when an earlier
\* visit of this tick moved it into k and no swap has touched k since ...
CameFrom(k) ==
    {EarlierSwaps[j][2] : j \in {n \in 1..Len(EarlierSwaps) :
        /\ EarlierSwaps[n][1] = k
        /\ \A m \in (n + 1)..Len(EarlierSwaps) :
              EarlierSwaps[m][1] # k /\ EarlierSwaps[m][2] # k}}

\* ... and whether the rule of the particle in cell k of grid g has a move.
RuleMoves(g, k) ==
    LET cx == XOf(k)
        cy == YOf(k)
    IN  \/ /\ g[k].type = MATERIAL_TYPE_SOLID
           /\ UpdateSolid(g, gridWidth, cx, cy).swap # <<>>
        \/ /\ g[k].type = MATERIAL_TYPE_LIQUID
           /\ UpdateLiquid(g, gridWidth, cx, cy).swap # <<>>
        \/ /\ g[k].type = MATERIAL_TYPE_GAS
           /\ UpdateGas(g, gridWidth, cx, cy, [n \in 1..4 |-> n]).swap # <<>>

\* C13: a particle that an earlier visit of the tick has moved into a cell
\* the scan had not reached yet is, when the scan reaches that cell, moved
\* again whenever its rule has a move: the rule is applied to it a second
\* time in the same tick.
C13_MovedParticleMovesAgain ==
    (Visited /\ CameFrom(last.at) # {} /\ RuleMoves(prev, last.at))
    => /\ last.to # NULL
       /\ swaps[Len(swaps)] = <<last.to, last.at>>
       /\ \A k \in DOMAIN prev : prev[k].hasBeenUpdatedThisFrame = FALSE

\* A particle of the file has moved two steps in one tick: from a cell a
\* into the visited cell, and from there on to a third cell.
C13_Witness ==
    /\ Visited
    /\ ~EmptyIn(prev, last.at)
    /\ last.to # NULL
    /\ \E a \in CameFrom(last.at) :
          /\ last.to # a
          /\ SameMaterial(snap[a], prev[last.at])
    /\ SameMaterial(cells[last.to], prev[last.at])

----------------------------------------------------------------------------
\* C14: the neighbours of cell k above, left, right and below that the
\* particle in k can go to: in the grid, and empty or replaceable.
Eligible(g, k) ==
    {CellAt(XOf(k) + d[1], YOf(k) + d[2]) :
        d \in {e \in {<<0, -1>>, <<-1, 0>>, <<1, 0>>, <<0, 1>>} :
                  /\ InGrid(XOf(k) + e[1], YOf(k) + e[2])
                  /\ ~Blocked(g, k, XOf(k) + e[1], YOf(k) + e[2])}}

\* C14: a visited gas with an eligible neighbour is exchanged with one of
\* its eligible neighbours and nothing else changes; a visited gas with
\* none is not moved; and before the visit of a gas, every eligible
\* neighbour is the one some order of the shuffle chooses.
C14_GasMovesToEligible ==
    /\ (Visited /\ prev[last.at].type = MATERIAL_TYPE_GAS) =>
          IF Eligible(prev, last.at) = {}
          THEN last.to = NULL /\ cells = prev
          ELSE /\ last.to \in Eligible(prev, last.at)
               /\ Exchanged(prev, cells, last.at, last.to)
    /\ (phase = "scan" /\ cells[CellAt(x, y)].type = MATERIAL_TYPE_GAS) =>
          \A t \in Eligible(cells, CellAt(x, y)) :
              \E order \in Shuffles :
                  Dispatch(cells, gridWidth, x, y, order).swap
                      = <<t, CellAt(x, y)>>

----------------------------------------------------------------------------
\* C15: in every reachable state a cell has the name "none" if and only if
\* its type is NONE.
C15_NoneIffTypeNone ==
    \A k \in DOMAIN cells :
        (cells[k].name = MATERIAL_NAME_NONE) <=> (cells[k].type = MATERIAL_TYPE_NONE)

----------------------------------------------------------------------------
\* C16: a solid, liquid or gas particle that a visit moves into an empty
\* cell arrives there with the colour it had before the visit.
C16_ColourKeptIntoEmpty ==
    ( /\ Visited /\ last.to # NULL
      /\ ~EmptyIn(prev, last.at)
      /\ prev[last.at].type \in {MATERIAL_TYPE_SOLID, MATERIAL_TYPE_LIQUID,
                                 MATERIAL_TYPE_GAS}
      /\ EmptyIn(prev, last.to) )
    => cells[last.to].color = prev[last.at].color

============================================================================
